---- MODULE Spec2Model ----
(***************************************************************************)
(* Pendle implied-APY monitoring bot (src/main.py).                        *)
(*                                                                         *)
(* Python dicts are modelled as sequences of <<key, value>> pairs with     *)
(* distinct keys, in insertion order.  Percentages are fixed-point numbers *)
(* in hundredths of a percent (20.0% is 2000); a raw impliedApy is in      *)
(* hundredths (0.25 is 25), so that raw * 100 is the percentage.           *)
(***************************************************************************)
EXTENDS Integers, Sequences, FiniteSets, TLC

VARIABLES
    pc,                           \* position of the process in main()
    raised,                       \* the exception that ended the process, or "none"
    CHAINS_TO_MONITOR,            \* dict chain_id -> display name
    specific_pools_to_track,      \* dict pool_id -> [name, min_threshold, chain]
    tracked_pools_json,           \* the file tracked_pools.json
    responses,                    \* what the provider answered in this cycle, per chain
    all_chain_data,               \* result of fetch_all_chains_data in this cycle
    high_apy_notifications,       \* local list of analyze_apy_data
    specific_pool_notifications,  \* local list of analyze_apy_data
    calls,                        \* bot.send_message calls made in this cycle
    ops,                          \* number of operator calls made so far
    cycle,                        \* number of the current polling cycle
    trace,                        \* history: the last add / add-then-remove on the store
    addedAt,                      \* history: the network set at the last add_specific_pool
    hits,                         \* history: cycles whose snapshot held a market above the threshold
    alerts                        \* history: cycles in which a high-APY call was made

vars == <<pc, raised, CHAINS_TO_MONITOR, specific_pools_to_track, tracked_pools_json,
          responses, all_chain_data, high_apy_notifications,
          specific_pool_notifications, calls, ops, cycle, trace, addedAt, hits, alerts>>

(***************************************************************************)
(* Bounds of the model.                                                    *)
(***************************************************************************)
MaxOps == 2        \* operator calls (add/remove pool, add/remove chain) before the loop
MaxCycles == 2     \* polling cycles
MaxMarkets == 2    \* markets per fetched document

(***************************************************************************)
(* Python dict operations.                                                 *)
(***************************************************************************)
DictKeys(d) == {d[i][1] : i \in 1..Len(d)}

DictHas(d, k) == k \in DictKeys(d)

DictGet(d, k) == d[CHOOSE i \in 1..Len(d) : d[i][1] = k][2]

DictSet(d, k, v) ==
    IF DictHas(d, k)
    THEN [i \in 1..Len(d) |-> IF d[i][1] = k THEN <<k, v>> ELSE d[i]]
    ELSE Append(d, <<k, v>>)

DictDel(d, k) == SelectSeq(d, LAMBDA e : e[1] # k)

(***************************************************************************)
(* Configuration.                                                          *)
(***************************************************************************)
\* The first two entries of the source's seven; the others behave alike.
InitialChains == << <<1, "Ethereum">>, <<42161, "Arbitrum">> >>

NOTIFICATION_THRESHOLD == 2000

(***************************************************************************)
(* The file tracked_pools.json and its JSON encoding.                      *)
(***************************************************************************)
FileAbsent == [kind |-> "absent", members |-> <<>>]

FileCorrupt == [kind |-> "corrupt", members |-> <<>>]

JsonDump(d) == [kind |-> "object", members |-> d]

JsonLoad(f) == f.members

\* The entries a reader of the file finds in it, in the file's order.
FileEntries(f) == IF f.kind = "object" THEN JsonLoad(f) ELSE <<>>

PoolId(chain_id, address) == ToString(chain_id) \o "-" \o address

SavedEntry(min_threshold) ==
    <<PoolId(1, "0xabc"), [name |-> "stETH", min_threshold |-> min_threshold, chain |-> "Ethereum"]>>

InitialFiles ==
    {FileAbsent, FileCorrupt, JsonDump(<<>>),
     JsonDump(<<SavedEntry(2000)>>), JsonDump(<<SavedEntry(4000)>>)}

(***************************************************************************)
(* Watch-list store.                                                       *)
(***************************************************************************)
\* Variant: the label is always synthesized.
ChainLabelSynthesized(chains, chain_id) == "Chain " \o ToString(chain_id)

ChainLabel(chains, chain_id) ==
    IF DictHas(chains, chain_id) THEN DictGet(chains, chain_id)
    ELSE "Chain " \o ToString(chain_id)

AddedPools(pools, chains, chain_id, address, name, min_threshold) ==
    DictSet(pools, PoolId(chain_id, address),
            [name |-> name, min_threshold |-> min_threshold,
             chain |-> ChainLabel(chains, chain_id)])

\* Variant: the entry is not deleted.
RemovedNothing(pools, chain_id, address) == pools

RemovedPools(pools, chain_id, address) ==
    IF DictHas(pools, PoolId(chain_id, address))
    THEN DictDel(pools, PoolId(chain_id, address))
    ELSE pools

save_tracked_pools(pools) == JsonDump(pools)

\* Variant: a removal that is not followed by a save.
FileNotSaved(file, pools, chain_id, address) == file

FileAfterRemove(file, pools, chain_id, address) ==
    IF DictHas(pools, PoolId(chain_id, address))
    THEN save_tracked_pools(RemovedPools(pools, chain_id, address))
    ELSE file

NoTrace == [op |-> "none", key |-> "", had |-> FALSE, pre |-> FileAbsent]

NoAdd == [key |-> "", chain_id |-> 0, chains |-> <<>>]

PoolChainIds == {1, 999}
PoolAddresses == {"0xabc"}
PoolNames == {"stETH"}
PoolThresholds == {2000, 4000}

loop_vars == <<responses, all_chain_data, high_apy_notifications,
               specific_pool_notifications, calls, cycle, hits, alerts>>

load_tracked_pools ==
    /\ pc = "boot"
    /\ IF tracked_pools_json.kind = "object"
       THEN /\ specific_pools_to_track' = JsonLoad(tracked_pools_json)
            /\ pc' = "setup"
            /\ raised' = raised
       ELSE IF tracked_pools_json.kind = "absent"
       THEN /\ specific_pools_to_track' = specific_pools_to_track
            /\ pc' = "setup"
            /\ raised' = raised
       ELSE /\ specific_pools_to_track' = specific_pools_to_track
            /\ pc' = "crashed"
            /\ raised' = "JSONDecodeError"
    /\ UNCHANGED <<CHAINS_TO_MONITOR, tracked_pools_json, ops, trace, addedAt>>
    /\ UNCHANGED loop_vars

add_specific_pool ==
    /\ pc = "setup"
    /\ ops < MaxOps
    /\ \E chain_id \in PoolChainIds, address \in PoolAddresses,
          name \in PoolNames, min_threshold \in PoolThresholds :
          /\ specific_pools_to_track' =
                AddedPools(specific_pools_to_track, CHAINS_TO_MONITOR,
                           chain_id, address, name, min_threshold)
          /\ tracked_pools_json' = save_tracked_pools(specific_pools_to_track')
          /\ trace' = [op |-> "add", key |-> PoolId(chain_id, address),
                       had |-> DictHas(specific_pools_to_track, PoolId(chain_id, address)),
                       pre |-> tracked_pools_json]
          /\ addedAt' = [key |-> PoolId(chain_id, address), chain_id |-> chain_id,
                         chains |-> CHAINS_TO_MONITOR]
    /\ ops' = ops + 1
    /\ UNCHANGED <<pc, raised, CHAINS_TO_MONITOR>>
    /\ UNCHANGED loop_vars

remove_specific_pool ==
    /\ pc = "setup"
    /\ ops < MaxOps
    /\ \E chain_id \in PoolChainIds, address \in PoolAddresses :
          /\ specific_pools_to_track' =
                RemovedPools(specific_pools_to_track, chain_id, address)
          /\ tracked_pools_json' =
                FileAfterRemove(tracked_pools_json, specific_pools_to_track,
                                chain_id, address)
          /\ trace' = IF trace.op = "add" /\ trace.key = PoolId(chain_id, address)
                      THEN [trace EXCEPT !.op = "add_remove"]
                      ELSE NoTrace
    /\ ops' = ops + 1
    /\ UNCHANGED <<pc, raised, CHAINS_TO_MONITOR, addedAt>>
    /\ UNCHANGED loop_vars

add_chain_to_monitor ==
    /\ pc = "setup"
    /\ ops < MaxOps
    /\ \E chain_id \in {1, 999}, chain_name \in {"Testnet"} :
          CHAINS_TO_MONITOR' = DictSet(CHAINS_TO_MONITOR, chain_id, chain_name)
    /\ ops' = ops + 1
    /\ trace' = NoTrace
    /\ UNCHANGED <<pc, raised, specific_pools_to_track, tracked_pools_json, addedAt>>
    /\ UNCHANGED loop_vars

remove_chain_from_monitor ==
    /\ pc = "setup"
    /\ ops < MaxOps
    /\ \E chain_id \in {1, 999, 42161} :
          CHAINS_TO_MONITOR' =
              IF DictHas(CHAINS_TO_MONITOR, chain_id)
              THEN DictDel(CHAINS_TO_MONITOR, chain_id)
              ELSE CHAINS_TO_MONITOR
    /\ ops' = ops + 1
    /\ trace' = NoTrace
    /\ UNCHANGED <<pc, raised, specific_pools_to_track, tracked_pools_json, addedAt>>
    /\ UNCHANGED loop_vars

(***************************************************************************)
(* Market Data Client.                                                     *)
(***************************************************************************)
Market(details, impliedApy, value) ==
    [address |-> "0xabc", name |-> "PT-X", details |-> details,
     impliedApy |-> impliedApy, value |-> value]

RawApys == {10, 20, 30}

\* A market of a provider document: "details" and "impliedApy" are each
\* present, absent, or JSON null.
Markets ==
    {Market("object", "number", v) : v \in RawApys}
    \cup {Market("object", "absent", 0), Market("object", "null", 0),
          Market("absent", "absent", 0), Market("null", "absent", 0)}

MarketLists == UNION {[1..n -> Markets] : n \in 0..MaxMarkets}

\* What one GET can yield: a RequestException, or a JSON object, which is
\* {} or {"message": ...} or {"markets": [...]}.
Outcomes ==
    {[status |-> "error", keys |-> {}, markets |-> <<>>],
     [status |-> "ok", keys |-> {}, markets |-> <<>>],
     [status |-> "ok", keys |-> {"message"}, markets |-> <<>>]}
    \cup {[status |-> "ok", keys |-> {"markets"}, markets |-> ms] : ms \in MarketLists}

None == [none |-> TRUE, keys |-> {}, markets |-> <<>>]

fetch_pendle_data(outcome) ==
    IF outcome.status = "ok"
    THEN [none |-> FALSE, keys |-> outcome.keys, markets |-> outcome.markets]
    ELSE None

\* Python truthiness of "dict or None".
Truthy(chain_data) == ~chain_data.none /\ chain_data.keys # {}

FetchedData(chains, outcomes) ==
    SelectSeq([i \in 1..Len(chains) |-> <<chains[i][1], fetch_pendle_data(outcomes[i])>>],
              LAMBDA p : Truthy(p[2]))

fetch_all_chains_data ==
    /\ pc = "fetch"
    /\ \E outcomes \in [1..Len(CHAINS_TO_MONITOR) -> Outcomes] :
          /\ responses' = [i \in 1..Len(CHAINS_TO_MONITOR) |->
                              <<CHAINS_TO_MONITOR[i][1], outcomes[i]>>]
          /\ all_chain_data' = FetchedData(CHAINS_TO_MONITOR, outcomes)
    /\ pc' = "analyze"
    /\ UNCHANGED <<raised, CHAINS_TO_MONITOR, specific_pools_to_track, tracked_pools_json,
                   high_apy_notifications, specific_pool_notifications, calls,
                   ops, cycle, trace, addedAt, hits, alerts>>

(***************************************************************************)
(* Analyzer and Notifier.                                                  *)
(***************************************************************************)
MarketsOf(data) == IF "markets" \in data.keys THEN data.markets ELSE <<>>

\* The (chain_id, market) pairs in the order the nested loops visit them.
RECURSIVE Visits(_)
Visits(chain_data) ==
    IF chain_data = <<>> THEN <<>>
    ELSE [i \in 1..Len(MarketsOf(Head(chain_data)[2])) |->
             <<Head(chain_data)[1], MarketsOf(Head(chain_data)[2])[i]>>]
         \o Visits(Tail(chain_data))

\* market.get("details", {}).get("impliedApy", 0) * 100 raises on a null.
ApyError(market) ==
    IF market.details = "null" THEN "AttributeError"
    ELSE IF market.details = "object" /\ market.impliedApy = "null" THEN "TypeError"
    ELSE "none"

ImpliedApy(market) ==
    IF market.details = "object" /\ market.impliedApy = "number"
    THEN market.value * 100
    ELSE 0 * 100

FirstError(visits) ==
    IF \E i \in 1..Len(visits) : ApyError(visits[i][2]) # "none"
    THEN CHOOSE i \in 1..Len(visits) :
            /\ ApyError(visits[i][2]) # "none"
            /\ \A j \in 1..(i - 1) : ApyError(visits[j][2]) = "none"
    ELSE 0

HighMessage(chain_name, market) ==
    [chain |-> chain_name, pool |-> market.name, apy |-> ImpliedApy(market)]

DropMessage(chain_name, pool_info, market) ==
    [chain |-> chain_name, pool |-> pool_info.name, apy |-> ImpliedApy(market),
     min_threshold |-> pool_info.min_threshold]

IsHigh(market) == ImpliedApy(market) > NOTIFICATION_THRESHOLD

IsDrop(pools, chain_id, market) ==
    /\ DictHas(pools, PoolId(chain_id, market.address))
    /\ ImpliedApy(market) < DictGet(pools, PoolId(chain_id, market.address)).min_threshold

RECURSIVE HighNotifications(_, _)
HighNotifications(chains, visits) ==
    IF visits = <<>> THEN <<>>
    ELSE (IF IsHigh(Head(visits)[2])
          THEN <<HighMessage(DictGet(chains, Head(visits)[1]), Head(visits)[2])>>
          ELSE <<>>)
         \o HighNotifications(chains, Tail(visits))

RECURSIVE SpecificNotifications(_, _, _)
SpecificNotifications(chains, pools, visits) ==
    IF visits = <<>> THEN <<>>
    ELSE (IF IsDrop(pools, Head(visits)[1], Head(visits)[2])
          THEN <<DropMessage(DictGet(chains, Head(visits)[1]),
                             DictGet(pools, PoolId(Head(visits)[1], Head(visits)[2].address)),
                             Head(visits)[2])>>
          ELSE <<>>)
         \o SpecificNotifications(chains, pools, Tail(visits))

\* send_telegram_notification: one bot.send_message call, whose failure is
\* caught and logged.
Deliveries(group, lines, delivered) ==
    IF lines # <<>> THEN <<[group |-> group, lines |-> lines, delivered |-> delivered]>>
    ELSE <<>>

HasHigh(chain_data) ==
    \E i \in 1..Len(Visits(chain_data)) :
        /\ ApyError(Visits(chain_data)[i][2]) = "none"
        /\ IsHigh(Visits(chain_data)[i][2])

analyze_apy_data ==
    /\ pc = "analyze"
    /\ LET visits == Visits(all_chain_data)
           k == FirstError(visits)
           done == IF k = 0 THEN visits ELSE SubSeq(visits, 1, k - 1)
           high == HighNotifications(CHAINS_TO_MONITOR, done)
           specific == SpecificNotifications(CHAINS_TO_MONITOR, specific_pools_to_track, done)
       IN  IF all_chain_data = <<>>
           THEN /\ UNCHANGED <<high_apy_notifications, specific_pool_notifications,
                               calls, raised, hits, alerts>>
                /\ pc' = "sleep"
           ELSE IF k # 0
           THEN /\ high_apy_notifications' = high
                /\ specific_pool_notifications' = specific
                /\ calls' = <<>>
                /\ raised' = ApyError(visits[k][2])
                /\ pc' = "crashed"
                /\ hits' = hits + (IF HasHigh(all_chain_data) THEN 1 ELSE 0)
                /\ alerts' = alerts
           ELSE /\ high_apy_notifications' = high
                /\ specific_pool_notifications' = specific
                /\ \E sent1, sent2 \in BOOLEAN :
                      calls' = Deliveries("high", high, sent1)
                               \o Deliveries("tracked", specific, sent2)
                /\ raised' = raised
                /\ pc' = "sleep"
                /\ hits' = hits + (IF HasHigh(all_chain_data) THEN 1 ELSE 0)
                /\ alerts' = alerts + (IF high # <<>> THEN 1 ELSE 0)
    /\ UNCHANGED <<CHAINS_TO_MONITOR, specific_pools_to_track, tracked_pools_json,
                   responses, all_chain_data, ops, cycle, trace, addedAt>>

(***************************************************************************)
(* Scheduler.                                                              *)
(***************************************************************************)
RunningPcs == {"fetch", "analyze", "sleep"}

\* main() reaches "while True" after the load and the operator's calls.
EnterLoop ==
    /\ pc = "setup"
    /\ pc' = "fetch"
    /\ cycle' = 1
    /\ UNCHANGED <<raised, CHAINS_TO_MONITOR, specific_pools_to_track, tracked_pools_json,
                   responses, all_chain_data, high_apy_notifications,
                   specific_pool_notifications, calls, ops, trace, addedAt, hits, alerts>>

\* time.sleep(600) returns and the loop starts its next cycle; what the
\* previous cycle fetched and built is dropped.
Sleep ==
    /\ pc = "sleep"
    /\ cycle < MaxCycles
    /\ pc' = "fetch"
    /\ cycle' = cycle + 1
    /\ responses' = <<>>
    /\ all_chain_data' = <<>>
    /\ high_apy_notifications' = <<>>
    /\ specific_pool_notifications' = <<>>
    /\ calls' = <<>>
    /\ UNCHANGED <<raised, CHAINS_TO_MONITOR, specific_pools_to_track, tracked_pools_json,
                   ops, trace, addedAt, hits, alerts>>

KeyboardInterrupt ==
    /\ pc \in RunningPcs
    /\ pc' = "terminated"
    /\ UNCHANGED <<raised, CHAINS_TO_MONITOR, specific_pools_to_track, tracked_pools_json,
                   responses, all_chain_data, high_apy_notifications,
                   specific_pool_notifications, calls, ops, cycle, trace, addedAt,
                   hits, alerts>>

Init ==
    /\ pc = "boot"
    /\ raised = "none"
    /\ CHAINS_TO_MONITOR = InitialChains
    /\ specific_pools_to_track = <<>>
    /\ tracked_pools_json \in InitialFiles
    /\ responses = <<>>
    /\ all_chain_data = <<>>
    /\ high_apy_notifications = <<>>
    /\ specific_pool_notifications = <<>>
    /\ calls = <<>>
    /\ ops = 0
    /\ cycle = 0
    /\ trace = NoTrace
    /\ addedAt = NoAdd
    /\ hits = 0
    /\ alerts = 0

\* main() as shipped: the load, then the polling loop.
Next ==
    \/ load_tracked_pools
    \/ EnterLoop
    \/ fetch_all_chains_data
    \/ analyze_apy_data
    \/ Sleep
    \/ KeyboardInterrupt

Spec == Init /\ [][Next]_vars

\* An operator's session on the watch-list store (as in the example call
\* main() carries after the load): the load, then any calls of the store's
\* and the network set's operations.  The loop writes none of their state.
StoreNext ==
    \/ load_tracked_pools
    \/ add_specific_pool
    \/ remove_specific_pool
    \/ add_chain_to_monitor
    \/ remove_chain_from_monitor

StoreSpec == Init /\ [][StoreNext]_vars


(***************************************************************************)
(* Properties.                                                             *)
(***************************************************************************)
Occurrences(seq, x) == Cardinality({i \in 1..Len(seq) : seq[i] = x})

\* analyze_apy_data has returned or raised in the current cycle.
PassEnded == pc = "sleep" \/ (pc = "crashed" /\ raised \in {"TypeError", "AttributeError"})

\* The markets of the fetched snapshots whose percentage is defined.
Evaluable == {i \in 1..Len(Visits(all_chain_data)) :
                 ApyError(Visits(all_chain_data)[i][2]) = "none"}

ChainNameOf(visit) == DictGet(CHAINS_TO_MONITOR, visit[1])

PoolInfoOf(visit) == DictGet(specific_pools_to_track, PoolId(visit[1], visit[2].address))

\* C1: once the loop is running, only an interrupt ends it: the process is
\* in the loop or was terminated by the interrupt, whatever was fetched.
C1_OnlyInterruptEndsLoop ==
    cycle >= 1 => pc \in RunningPcs \cup {"terminated"}

\* The claimed content of the mapping: exactly the networks that answered.
MappingIsSucceeded ==
    DictKeys(all_chain_data) =
        {responses[i][1] : i \in {j \in 1..Len(responses) : responses[j][2].status = "ok"}}

\* Every fetched market above the threshold is in a high-APY delivery call.
HighMarketsReported ==
    \A i \in Evaluable :
        IsHigh(Visits(all_chain_data)[i][2]) =>
            \E c \in 1..Len(calls) :
                /\ calls[c].group = "high"
                /\ Occurrences(calls[c].lines,
                               HighMessage(ChainNameOf(Visits(all_chain_data)[i]),
                                           Visits(all_chain_data)[i][2])) >= 1

\* C2: the mapping fetch_all_chains_data returns holds exactly the networks
\* whose fetch succeeded, and the cycle's analysis reports every market above
\* the threshold of every such network.
C2_ExactlySucceeded ==
    /\ pc = "analyze" => MappingIsSucceeded
    /\ PassEnded => HighMarketsReported

\* Exactly one high-APY message per market strictly above the threshold.
OneHighMessagePerMarket ==
    LET visits == Visits(all_chain_data)
        msg(i) == HighMessage(ChainNameOf(visits[i]), visits[i][2])
    IN  \A i \in Evaluable :
           Occurrences(high_apy_notifications, msg(i)) =
               IF visits[i][2].value * 100 > NOTIFICATION_THRESHOLD
                  /\ visits[i][2].impliedApy = "number"
                  /\ visits[i][2].details = "object"
               THEN Cardinality({j \in Evaluable : msg(j) = msg(i)})
               ELSE 0

\* C3: in one analysis pass every market with a percentage strictly above
\* the global threshold produces exactly one high-APY message, and every
\* other market none.
C3_OneHighMessagePerMarket ==
    PassEnded => OneHighMessagePerMarket

\* One drop message per tracked market strictly below its min_threshold.
DropMessageIffTrackedBelow ==
    LET visits == Visits(all_chain_data)
        tracked(i) == DictHas(specific_pools_to_track,
                              PoolId(visits[i][1], visits[i][2].address))
        msg(i) == DropMessage(ChainNameOf(visits[i]), PoolInfoOf(visits[i]), visits[i][2])
    IN  \A i \in Evaluable :
           IF tracked(i) /\ ImpliedApy(visits[i][2]) < PoolInfoOf(visits[i]).min_threshold
           THEN Occurrences(specific_pool_notifications, msg(i)) =
                    Cardinality({j \in Evaluable : tracked(j) /\ msg(j) = msg(i)})
           ELSE tracked(i) => Occurrences(specific_pool_notifications, msg(i)) = 0

\* C4: in one analysis pass a market produces a tracked-pool-drop message
\* if and only if its key is in the watch-list and its percentage is
\* strictly below that entry's min_threshold.
C4_DropMessageIffTrackedBelow ==
    PassEnded => DropMessageIffTrackedBelow

\* The delivery calls are one per non-empty group, the high-APY group first.
OneCallPerNonEmptyGroup ==
    /\ Len(calls) <= 2
    /\ [i \in 1..Len(calls) |-> <<calls[i].group, calls[i].lines>>] =
          (IF high_apy_notifications # <<>>
           THEN << <<"high", high_apy_notifications>> >> ELSE <<>>)
          \o (IF specific_pool_notifications # <<>>
              THEN << <<"tracked", specific_pool_notifications>> >> ELSE <<>>)

\* C5: a cycle makes at most two delivery calls: one with all its high-APY
\* messages iff there are any, then one with all its tracked-pool messages
\* iff there are any.
C5_OneCallPerNonEmptyGroup ==
    PassEnded => OneCallPerNonEmptyGroup

\* C2 to C5 and C8 on the passes that return: the statements hold of every cycle in
\* which analyze_apy_data does not raise, apart from the networks that
\* answered with an empty document.
AnalysisOfReturnedPass ==
    pc = "sleep" =>
        /\ HighMarketsReported
        /\ OneHighMessagePerMarket
        /\ DropMessageIffTrackedBelow
        /\ OneCallPerNonEmptyGroup
        /\ hits = alerts

\* C6: add_specific_pool followed at once by remove_specific_pool of the
\* same (network_id, address) leaves the persisted store as it was before
\* the add.
C6_AddRemoveRoundTrip ==
    trace.op = "add_remove" =>
        FileEntries(tracked_pools_json) = FileEntries(trace.pre)

\* C6, amended: the round trip holds when the watch-list held no entry for
\* (network_id, address) before the add.
C6_AddRemoveRoundTripNewKey ==
    (trace.op = "add_remove" /\ ~trace.had) =>
        FileEntries(tracked_pools_json) = FileEntries(trace.pre)

C6_Witness ==
    /\ trace.op = "add_remove"
    /\ ~trace.had
    /\ FileEntries(trace.pre) # <<>>
    /\ FileEntries(tracked_pools_json) = FileEntries(trace.pre)

\* C7: after the load and after any add and remove calls the file's entries
\* are the in-memory entries; a step that changes the file writes the whole
\* in-memory collection, and a step that leaves the collection as it was
\* (a remove of an absent key) leaves the file as it was.
C7_FileMirrorsMemory ==
    /\ [](pc # "boot" => FileEntries(tracked_pools_json) = specific_pools_to_track)
    /\ [][/\ tracked_pools_json' # tracked_pools_json =>
                tracked_pools_json' = JsonDump(specific_pools_to_track')
          /\ specific_pools_to_track' = specific_pools_to_track =>
                tracked_pools_json' = tracked_pools_json]_vars

C7_Witness ==
    /\ ops = MaxOps
    /\ Len(specific_pools_to_track) = 2
    /\ tracked_pools_json = JsonDump(specific_pools_to_track)

\* C8: every cycle whose snapshot holds a market above the global threshold
\* makes a high-APY notification: the number of such cycles is the number
\* of cycles with a high-APY delivery call.
C8_NotifiedInEveryCycle ==
    hits = alerts

\* C9: a load of a file that cannot be parsed lets no error escape and
\* leaves the watch-list empty, as a load of an absent file does.
C9_CorruptFileAsAbsent ==
    (pc # "boot" /\ tracked_pools_json.kind = "corrupt") =>
        (raised = "none" /\ pc # "crashed" /\ specific_pools_to_track = <<>>)

\* C10: the entry's chain label is the display name the network had in the
\* monitored set at the time of the add, or "Network <id>" when it had
\* none, whatever the monitored set became later.
C10_LabelNetworkFallback ==
    (addedAt.key # "" /\ DictHas(specific_pools_to_track, addedAt.key)) =>
        DictGet(specific_pools_to_track, addedAt.key).chain =
            IF DictHas(addedAt.chains, addedAt.chain_id)
            THEN DictGet(addedAt.chains, addedAt.chain_id)
            ELSE "Network " \o ToString(addedAt.chain_id)

\* C10, amended: as C10, the synthesized label being "Chain <id>".
C10_LabelChainFallback ==
    (addedAt.key # "" /\ DictHas(specific_pools_to_track, addedAt.key)) =>
        DictGet(specific_pools_to_track, addedAt.key).chain =
            IF DictHas(addedAt.chains, addedAt.chain_id)
            THEN DictGet(addedAt.chains, addedAt.chain_id)
            ELSE "Chain " \o ToString(addedAt.chain_id)

C10_Witness ==
    /\ addedAt.key = PoolId(999, "0xabc")
    /\ DictHas(specific_pools_to_track, addedAt.key)
    /\ ~DictHas(addedAt.chains, 999)
    /\ DictHas(CHAINS_TO_MONITOR, 999)
    /\ DictGet(specific_pools_to_track, addedAt.key).chain = "Chain 999"

====
